---- MODULE Spec2Model ----
(***************************************************************************)
(* Vacina-Brasil backend: the text normalizers of backend/normalizer.py   *)
(* (normalize_sigla, normalize_insumo, the lazily created default         *)
(* normalizer) and the row normalizer / no-data heuristic of the          *)
(* /previsao route in backend/previsao_router.py.                         *)
(*                                                                         *)
(* Python str values are sequences of one-character strings, so that      *)
(* strip, upper, slicing and regular-expression search are computed       *)
(* character by character.  Python None, where a text is expected, is the *)
(* one-element sequence None, whose element is no character.              *)
(***************************************************************************)
EXTENDS Integers, Sequences, FiniteSets, TLC

VARIABLES
    tx_sigla,      \* argument of normalize_sigla
    sigla_once,    \* normalize_sigla(tx_sigla)
    sigla_twice,   \* normalize_sigla(normalize_sigla(tx_sigla))
    file_exists,   \* mappings_path.exists()
    file_data,     \* the rule records of the mappings file, as declared
    loaded,        \* Normalizer.__init__ has run
    mappings,      \* self.mappings
    tx_insumo,     \* argument of the last normalize_insumo call
    insumo_ret,    \* what that call returned, and from which stage
    item,          \* argument of _normalize_row
    row_ret,       \* <<>> before the call, <<result>> after it
    rpc_data,      \* what the RPC returned to the /previsao handler
    response,      \* the handler's response to a request, by its debug flag
    default_normalizer, \* the global _default_normalizer: 0 for None, else an object
    instances,     \* the Normalizer objects constructed so far, by identity
    pc,            \* where each thread is in get_default_normalizer
    created,       \* the object a thread has constructed and not yet stored
    returned       \* what get_default_normalizer returned to each thread

siglaVars == <<tx_sigla, sigla_once, sigla_twice>>
insumoVars == <<file_exists, file_data, loaded, mappings, tx_insumo, insumo_ret>>
rowVars == <<item, row_ret>>
shapeVars == <<rpc_data, response>>
defaultVars == <<default_normalizer, instances, pc, created, returned>>
vars == <<siglaVars, insumoVars, rowVars, shapeVars, defaultVars>>

---------------------------------------------------------------------------
(* Python values *)

None == <<"None">>
Pending == <<"Pending">>

Lowers == <<"a","b","c","d","e","f","g","h","i","j","k","l","m",
            "n","o","p","q","r","s","t","u","v","w","x","y","z">>
Uppers == <<"A","B","C","D","E","F","G","H","I","J","K","L","M",
            "N","O","P","Q","R","S","T","U","V","W","X","Y","Z">>
Digits == {"0","1","2","3","4","5","6","7","8","9"}

IsLower(c) == \E i \in DOMAIN Lowers : Lowers[i] = c
IsUpperAZ(c) == \E i \in DOMAIN Uppers : Uppers[i] = c

\* the characters the texts of this model are written with
Alphabet ==
    {Lowers[i] : i \in DOMAIN Lowers} \cup {Uppers[i] : i \in DOMAIN Uppers} \cup Digits
    \cup {" ", "\t", "\n", "\r", "-", ".", "/", "(", ")", ","}

\* str.upper() and str.lower(), one character
UpperOf ==
    [c \in Alphabet |->
        IF IsLower(c) THEN Uppers[CHOOSE i \in DOMAIN Lowers : Lowers[i] = c] ELSE c]
LowerOf ==
    [c \in Alphabet |->
        IF IsUpperAZ(c) THEN Lowers[CHOOSE i \in DOMAIN Uppers : Uppers[i] = c] ELSE c]

ToUpper(c) == UpperOf[c]
ToLower(c) == LowerOf[c]

Upper(s) == [i \in DOMAIN s |-> ToUpper(s[i])]
Lower(s) == [i \in DOMAIN s |-> ToLower(s[i])]

\* the characters str.strip() removes and \s matches
IsSpace(c) == c \in {" ", "\t", "\n", "\r"}

RECURSIVE LStrip(_)
LStrip(s) == IF s # <<>> /\ IsSpace(Head(s)) THEN LStrip(Tail(s)) ELSE s

RECURSIVE RStrip(_)
RStrip(s) ==
    IF s # <<>> /\ IsSpace(s[Len(s)]) THEN RStrip(SubSeq(s, 1, Len(s) - 1)) ELSE s

Strip(s) == RStrip(LStrip(s))

\* s[n:]
Drop(s, n) == SubSeq(s, n + 1, Len(s))
\* s[:n]
Take(s, n) == SubSeq(s, 1, IF n < Len(s) THEN n ELSE Len(s))

StartsWith(s, p) == Len(p) <= Len(s) /\ SubSeq(s, 1, Len(p)) = p

\* all concatenations of at most n fragments of F
RECURSIVE Concats(_, _)
Concats(F, n) ==
    IF n = 0 THEN {<<>>}
    ELSE LET P == Concats(F, n - 1) IN P \cup {p \o f : p \in P, f \in F}

---------------------------------------------------------------------------
(* Normalizer.normalize_sigla *)

\* the class [\-\s./] of the prefix pattern
IsSiglaSep(c) == c \in {"-", ".", "/"} \/ IsSpace(c)

RECURSIVE DropSiglaSeps(_)
DropSiglaSeps(s) ==
    IF s # <<>> /\ IsSiglaSep(Head(s)) THEN DropSiglaSeps(Tail(s)) ELSE s

\* re.sub(r"^SES[\-\s./]*", "", s)
StripSES(s) ==
    IF StartsWith(s, <<"S","E","S">>) THEN DropSiglaSeps(Drop(s, 3)) ELSE s

\* re.search(r"([A-Z]{2})$", s); s is stripped, so $ is the end of s
EndsTwoUpper(s) ==
    Len(s) >= 2 /\ IsUpperAZ(s[Len(s) - 1]) /\ IsUpperAZ(s[Len(s)])

\* s[:2] if s else None
FirstTwo(s) == IF s # <<>> THEN Take(s, 2) ELSE None

normalize_sigla(tx) ==
    IF tx = None \/ tx = <<>> THEN None
    ELSE LET s == StripSES(Upper(Strip(tx)))
         IN  IF EndsTwoUpper(s) THEN SubSeq(s, Len(s) - 1, Len(s))
             ELSE FirstTwo(s)

---------------------------------------------------------------------------
(* Normalizer.load_mappings and Normalizer.normalize_insumo *)

\* A rule record of mappings.json.  priority is <<>> when the record has no
\* "priority" key and <<n>> when it has; an empty pattern stands for a record
\* whose "pattern" is missing or empty (m.get("pattern") or "").
Rule(pattern, label, priority) ==
    [pattern |-> pattern, vacina_normalizada |-> label, priority |-> priority]

DefaultPriority == 100

\* the sort key: x.get("priority", 100)
PriorityKey(x) == IF x.priority = <<>> THEN DefaultPriority ELSE x.priority[1]

\* r placed after every record whose key is not greater: sorted() is stable
RECURSIVE InsertRule(_, _)
InsertRule(r, s) ==
    IF s = <<>> THEN <<r>>
    ELSE IF PriorityKey(Head(s)) <= PriorityKey(r)
         THEN <<Head(s)>> \o InsertRule(r, Tail(s))
         ELSE <<r>> \o s

\* the declared order kept: the sort forgotten
DeclaredOrder(data) == data

RECURSIVE SortedByPriority(_)
SortedByPriority(data) ==
    IF data = <<>> THEN <<>>
    ELSE InsertRule(data[Len(data)], SortedByPriority(SubSeq(data, 1, Len(data) - 1)))

load_mappings(exists, data) == IF ~exists THEN <<>> ELSE SortedByPriority(data)

\* p occurs in s at position i
OccursAt(s, p, i) ==
    /\ i >= 1
    /\ i + Len(p) - 1 <= Len(s)
    /\ \A k \in 1..Len(p) : s[i + k - 1] = p[k]

Occurrences(s, p) == {i \in 1..(Len(s) + 1) : OccursAt(s, p, i)}

Contains(s, p) == \E i \in 1..(Len(s) - Len(p) + 1) : OccursAt(s, p, i)

Min(S) == CHOOSE x \in S : \A y \in S : x <= y
Max(S) == CHOOSE x \in S : \A y \in S : x >= y

\* re.compile succeeds: of the characters the rule patterns here are written
\* with, only an unclosed "(" makes a pattern invalid
RECURSIVE ParenDepth(_)
ParenDepth(p) ==
    IF p = <<>> THEN 0
    ELSE ParenDepth(SubSeq(p, 1, Len(p) - 1))
         + (IF p[Len(p)] = "(" THEN 1 ELSE IF p[Len(p)] = ")" THEN -1 ELSE 0)

Compiles(pat) == ParenDepth(pat) = 0

\* re.search(pat, tx, flags=re.IGNORECASE) for a pattern of letters, digits and
\* blanks: the pattern occurs somewhere in tx, case ignored
ReSearchIgnoreCase(pat, tx) == Contains(Lower(tx), Lower(pat))

\* lines 35-41 (and 55-61): the try block, and the except re.error block
RuleMatches(m, tx) ==
    LET pat == m.pattern
    IN  /\ pat # <<>>
        /\ IF Compiles(pat) THEN ReSearchIgnoreCase(pat, tx)
           ELSE Contains(Lower(tx), Lower(pat))

\* the for loop over self.mappings: index of the rule it returns from, 0 if none
FirstMatch(maps, tx) ==
    LET hits == {i \in DOMAIN maps : RuleMatches(maps[i], tx)}
    IN  IF hits = {} THEN 0 ELSE Min(hits)

SkipSpaces(s) == LStrip(s)

\* re.search(r"VACINA(?:\s*(?:P/|PARA|CONTRA)\s*)?(.*)$", tx_upper) on a text
\* without line breaks: <<>> when there is no match, <<group(1)>> otherwise
VacinaGroup(u) ==
    LET V == <<"V","A","C","I","N","A">>
    IN  IF ~Contains(u, V) THEN <<>>
        ELSE LET rest == Drop(u, Min(Occurrences(u, V)) + Len(V) - 1)
                 r1 == SkipSpaces(rest)
                 word == IF StartsWith(r1, <<"P","/">>) THEN 2
                         ELSE IF StartsWith(r1, <<"P","A","R","A">>) THEN 4
                         ELSE IF StartsWith(r1, <<"C","O","N","T","R","A">>) THEN 6
                         ELSE 0
             IN  IF word = 0 THEN <<rest>> ELSE <<SkipSpaces(Drop(r1, word))>>

\* the lazy reading of the pattern: what follows the first DILUENTE
AfterFirstDiluente(u) ==
    LET D == <<"D","I","L","U","E","N","T","E">>
    IN  Drop(u, Min(Occurrences(u, D)) + Len(D) - 1)

\* re.sub(r".*DILUENTE.*?", "", tx_upper) on a text without line breaks that
\* contains DILUENTE: the greedy .* runs to the last DILUENTE, the lazy .*? takes
\* nothing, and no second match follows
SubDiluente(u) ==
    LET D == <<"D","I","L","U","E","N","T","E">>
    IN  Drop(u, Max(Occurrences(u, D)) + Len(D) - 1)

\* re.sub(r"[\-\(\)\,\d]", "", candidate)
RECURSIVE RemoveNoise(_)
RemoveNoise(s) ==
    IF s = <<>> THEN <<>>
    ELSE IF Head(s) \in {"-", "(", ")", ","} \cup Digits THEN RemoveNoise(Tail(s))
         ELSE <<Head(s)>> \o RemoveNoise(Tail(s))

\* lines 44-53: <<>> when the second rule loop is not run, <<candidate>> (cleaned)
\* when it is
DiluentCandidate(tx) ==
    LET u == Upper(tx)
    IN  IF ~Contains(u, <<"D","I","L","U","E","N","T","E">>) THEN <<>>
        ELSE LET m0 == VacinaGroup(u)
                 candidate == IF m0 # <<>> THEN Strip(m0[1]) ELSE Strip(SubDiluente(u))
             IN  IF candidate = <<>> THEN <<>>
                 ELSE <<Strip(RemoveNoise(candidate))>>

\* re.search(r"SARS[- ]?COV2|COVID[- ]?19", tx, flags=re.IGNORECASE)
CovidSearch(tx) ==
    LET u == Upper(tx)
        WithSep(a, b) == Contains(u, a \o b) \/ Contains(u, a \o <<"-">> \o b)
                         \/ Contains(u, a \o <<" ">> \o b)
    IN  \/ WithSep(<<"S","A","R","S">>, <<"C","O","V","2">>)
        \/ WithSep(<<"C","O","V","I","D">>, <<"1","9">>)

Covid19 == <<"C","o","v","i","d","-","1","9">>

Returned(stage, value) == [stage |-> stage, value |-> value]

\* the fallback tried before the diluent candidate
CovidFirstStage(maps, tx) ==
    LET c == DiluentCandidate(tx)
        k == IF c = <<>> THEN 0 ELSE FirstMatch(maps, c[1])
    IN  IF CovidSearch(tx) THEN Returned("fallback", Covid19)
        ELSE IF k # 0 THEN Returned("diluent", maps[k].vacina_normalizada)
        ELSE Returned("none", None)

\* lines 43-61: the diluent special case, reached when no rule matched tx
DiluentStage(maps, tx) ==
    LET c == DiluentCandidate(tx)
        k == IF c = <<>> THEN 0 ELSE FirstMatch(maps, c[1])
    IN  IF k # 0 THEN Returned("diluent", maps[k].vacina_normalizada)
        ELSE IF CovidSearch(tx) THEN Returned("fallback", Covid19)
        ELSE Returned("none", None)

normalize_insumo(maps, tx_in) ==
    IF tx_in = None \/ tx_in = <<>> THEN Returned("empty", None)
    ELSE LET tx == Strip(tx_in)
             k == FirstMatch(maps, tx)
         IN  IF k # 0 THEN Returned("direct", maps[k].vacina_normalizada)
             ELSE DiluentStage(maps, tx)

---------------------------------------------------------------------------
(* JSON values, and _normalize_row of previsao_router.py *)

\* A JSON value as Python holds it: t is its type, n the number of an int (and of
\* a float, in tenths), s the text of a str, items the elements of a list or the
\* entries of a dict in iteration order; k is the key under which the value sits
\* in a dict, "" elsewhere.
JNull == [k |-> "", t |-> "null", n |-> 0, s |-> "", items |-> <<>>]
JInt(n) == [k |-> "", t |-> "int", n |-> n, s |-> "", items |-> <<>>]
JFloat(tenths) == [k |-> "", t |-> "float", n |-> tenths, s |-> "", items |-> <<>>]
JStr(s) == [k |-> "", t |-> "str", n |-> 0, s |-> s, items |-> <<>>]
JList(items) == [k |-> "", t |-> "list", n |-> 0, s |-> "", items |-> items]
JDict(entries) == [k |-> "", t |-> "dict", n |-> 0, s |-> "", items |-> entries]

Entry(key, v) == [v EXCEPT !.k = key]
Unkey(v) == [v EXCEPT !.k = ""]

\* k in d
HasKey(d, key) == \E i \in DOMAIN d.items : d.items[i].k = key

\* d.get(key)
Get(d, key) ==
    IF HasKey(d, key)
    THEN Unkey(d.items[CHOOSE i \in DOMAIN d.items : d.items[i].k = key])
    ELSE JNull

\* list(d.values())
Values(d) == [i \in DOMAIN d.items |-> Unkey(d.items[i])]

\* bool(v)
Truthy(v) ==
    CASE v.t = "null" -> FALSE
      [] v.t \in {"int", "float"} -> v.n # 0
      [] v.t = "str" -> v.s # ""
      [] OTHER -> v.items # <<>>

\* int(s) of a str: <<n>>, or <<>> for ValueError
StrAsInt(s) ==
    CASE s = "0" -> <<0>>
      [] s = "2021" -> <<2021>>
      [] s = "2025" -> <<2025>>
      [] OTHER -> <<>>

\* float(s) of a str, in tenths: <<n>>, or <<>> for ValueError
StrAsFloat(s) ==
    CASE s = "0" -> <<0>>
      [] s = "0.5" -> <<5>>
      [] s = "150.5" -> <<1505>>
      [] s = "2021" -> <<20210>>
      [] s = "2025" -> <<20250>>
      [] OTHER -> <<>>

\* int(x) of a float given in tenths: truncation toward zero
Trunc(tenths) == IF tenths >= 0 THEN tenths \div 10 ELSE -((-tenths) \div 10)

\* lines 91-97: int(ano), then int(float(ano)), then None
CoerceYear(ano) ==
    CASE ano.t = "null" -> JNull
      [] ano.t = "int" -> JInt(ano.n)
      [] ano.t = "float" -> JInt(Trunc(ano.n))
      [] ano.t = "str" ->
            IF StrAsInt(ano.s) # <<>> THEN JInt(StrAsInt(ano.s)[1])
            ELSE IF StrAsFloat(ano.s) # <<>> THEN JInt(Trunc(StrAsFloat(ano.s)[1]))
            ELSE JNull
      [] OTHER -> JNull

\* lines 98-101: float(quantidade), None on failure
CoerceQuantity(quantidade) ==
    CASE quantidade.t = "null" -> JNull
      [] quantidade.t = "int" -> JFloat(10 * quantidade.n)
      [] quantidade.t = "float" -> JFloat(quantidade.n)
      [] quantidade.t = "str" ->
            IF StrAsFloat(quantidade.s) # <<>> THEN JFloat(StrAsFloat(quantidade.s)[1])
            ELSE JNull
      [] OTHER -> JNull

\* repr of a float given in tenths
FloatRepr(tenths) ==
    LET a == IF tenths >= 0 THEN tenths ELSE -tenths
    IN  (IF tenths < 0 THEN "-" ELSE "") \o ToString(a \div 10) \o "." \o ToString(a % 10)

\* line 102: str(tipo); the text of a list or dict is only known not to be a word
CoerceKind(tipo) ==
    CASE tipo.t = "null" -> JNull
      [] tipo.t = "str" -> JStr(tipo.s)
      [] tipo.t = "int" -> JStr(ToString(tipo.n))
      [] tipo.t = "float" -> JStr(FloatRepr(tipo.n))
      [] OTHER -> JStr(IF tipo.t = "list" THEN "[...]" ELSE "{...}")

ano_keys == <<"ano", "year", "f0", "0", "ano_val">>
qty_keys == <<"quantidade", "quant", "qtde", "f1", "1", "quantidade_val">>
tipo_keys == <<"tipo_dado", "tipo", "f2", "2">>

\* _pick: the value of the first key of keys that is in the dict with a value
\* other than None
Pick(d, keys) ==
    LET found == {i \in DOMAIN keys : HasKey(d, keys[i]) /\ Get(d, keys[i]) # JNull}
    IN  IF found = {} THEN JNull ELSE Get(d, keys[Min(found)])

Fields(ano, quantidade, tipo) == [ano |-> ano, quantidade |-> quantidade, tipo |-> tipo]

\* the positional fallback overwriting the fields found by key
PositionalOverwrite(f, vals) ==
    IF (f.ano = JNull \/ f.quantidade = JNull) /\ Len(vals) >= 2
    THEN Fields(vals[1], vals[2], IF Len(vals) >= 3 THEN vals[3] ELSE f.tipo)
    ELSE f

\* lines 69-77: the fields f found by key, completed from the values in order
PositionalFallback(f, vals) ==
    IF (f.ano = JNull \/ f.quantidade = JNull) /\ Len(vals) >= 2
    THEN Fields(IF f.ano = JNull THEN vals[1] ELSE f.ano,
                IF f.quantidade = JNull THEN vals[2] ELSE f.quantidade,
                IF f.tipo = JNull /\ Len(vals) >= 3 THEN vals[3] ELSE f.tipo)
    ELSE f

\* lines 52-77
DictFields(d) ==
    PositionalFallback(Fields(Pick(d, ano_keys), Pick(d, qty_keys), Pick(d, tipo_keys)),
                       Values(d))

\* lines 90-107
Coerced(f) ==
    LET ano_int == CoerceYear(f.ano)
        quantidade_num == CoerceQuantity(f.quantidade)
        tipo_str == CoerceKind(f.tipo)
    IN  IF ano_int = JNull /\ quantidade_num = JNull /\ tipo_str = JNull THEN JNull
        ELSE JDict(<<Entry("ano", ano_int), Entry("quantidade", quantidade_num),
                     Entry("tipo_dado", tipo_str)>>)

\* _normalize_row(item): JNull for None
normalize_row(it) ==
    CASE it.t = "null" -> JNull
      [] it.t = "dict" -> Coerced(DictFields(it))
      [] it.t = "list" ->
            IF Len(it.items) >= 2
            THEN Coerced(Fields(it.items[1], it.items[2],
                                IF Len(it.items) > 2 THEN it.items[3] ELSE JNull))
            ELSE JNull
      [] OTHER -> JNull

---------------------------------------------------------------------------
(* the response of the /previsao handler, lines 207-272 of previsao_router.py *)

Erro == JStr("Nenhum dado encontrado para os filtros fornecidos.")

JSONResponse(status_code, content) == [status_code |-> status_code, content |-> content]

\* the 404 of lines 225-227, 234-236, 254-256, 261-263 and 270-272
NotFound(data, debug) ==
    IF debug THEN JSONResponse(404, JDict(<<Entry("rpc_raw", data), Entry("erro", Erro)>>))
    ELSE JSONResponse(404, JDict(<<Entry("erro", Erro)>>))

\* the test on quantidade with None left out
ZeroOnly(nr) ==
    /\ nr # JNull
    /\ Get(nr, "tipo_dado") = JStr("previsao")
    /\ LET q == Get(nr, "quantidade") IN q.t \in {"int", "float"} /\ q.n = 0

\* lines 221-223 (and 250-252): nr and nr.get("tipo_dado") == "previsao" and
\* (q is None or float(q) == 0)
ZeroForecast(nr) ==
    /\ nr # JNull
    /\ Get(nr, "tipo_dado") = JStr("previsao")
    /\ LET q == Get(nr, "quantidade")
       IN  q = JNull \/ (q.t \in {"int", "float"} /\ q.n = 0)

\* lines 219-223 (and 248-252)
SingleZeroForecast(rows) == Len(rows) = 1 /\ ZeroForecast(normalize_row(rows[1]))

\* a or b
Or(a, b) == IF Truthy(a) THEN a ELSE b

\* line 244: data.get("data") or data.get("result") or data.get("rows")
Unwrapped(data) == Or(Or(Get(data, "data"), Get(data, "result")), Get(data, "rows"))

\* the rows of a bare list returned normalized instead of as received
ListResponseNormalized(data, debug) ==
    IF SingleZeroForecast(data.items) \/ Len(data.items) = 0 THEN NotFound(data, debug)
    ELSE IF debug THEN JSONResponse(200, JDict(<<Entry("rpc_raw", data)>>))
    ELSE JSONResponse(200, JList([i \in DOMAIN data.items |-> normalize_row(data.items[i])]))

\* lines 213-240
ListResponse(data, debug) ==
    IF SingleZeroForecast(data.items) THEN NotFound(data, debug)
    ELSE IF Len(data.items) = 0 THEN NotFound(data, debug)
    ELSE IF debug THEN JSONResponse(200, JDict(<<Entry("rpc_raw", data)>>))
    ELSE JSONResponse(200, data)

\* the wrapped rows taken from "data" alone
WrappedUnderDataOnly(data, debug) ==
    LET candidate == Get(data, "data")
    IN  IF candidate.t # "list" THEN NotFound(data, debug)
        ELSE IF SingleZeroForecast(candidate.items) \/ Len(candidate.items) = 0
             THEN NotFound(data, debug)
        ELSE IF debug
             THEN JSONResponse(200, JDict(<<Entry("rpc_raw", data), Entry("result", candidate)>>))
             ELSE JSONResponse(200, candidate)

\* lines 243-272
WrappedResponse(data, debug) ==
    LET candidate == Unwrapped(data)
    IN  IF candidate.t # "list" THEN NotFound(data, debug)
        ELSE IF SingleZeroForecast(candidate.items) THEN NotFound(data, debug)
        ELSE IF Len(candidate.items) = 0 THEN NotFound(data, debug)
        ELSE IF debug
             THEN JSONResponse(200, JDict(<<Entry("rpc_raw", data), Entry("result", candidate)>>))
             ELSE JSONResponse(200, candidate)

\* the debug branch of line 238 answering before the no-data tests
DebugFirst(data, debug) ==
    IF data.t = "list" /\ debug /\ Len(data.items) > 0
    THEN JSONResponse(200, JDict(<<Entry("rpc_raw", data)>>))
    ELSE IF data.t = "list" THEN ListResponse(data, debug)
    ELSE IF data.t = "dict" THEN WrappedResponse(data, debug)
    ELSE NotFound(data, debug)

\* lines 213-272: the response to the data the RPC returned
previsao_response(data, debug) ==
    IF data.t = "list" THEN ListResponse(data, debug)
    ELSE IF data.t = "dict" THEN WrappedResponse(data, debug)
    ELSE NotFound(data, debug)

---------------------------------------------------------------------------
(* the state of a component that a specification does not exercise *)

NoResponse == [status_code |-> 0, content |-> JNull]

NotCalled == Returned("pending", Pending)

IdleInsumo ==
    /\ file_exists = FALSE
    /\ file_data = <<>>
    /\ loaded = FALSE
    /\ mappings = <<>>
    /\ tx_insumo = Pending
    /\ insumo_ret = NotCalled

IdleSigla ==
    /\ tx_sigla = None
    /\ sigla_once = Pending
    /\ sigla_twice = Pending

IdleRow ==
    /\ item = JNull
    /\ row_ret = <<>>

IdleShape ==
    /\ rpc_data = JNull
    /\ response = [debug \in BOOLEAN |-> NoResponse]

IdleDefault ==
    /\ default_normalizer = 0
    /\ instances = <<>>
    /\ pc = <<>>
    /\ created = <<>>
    /\ returned = <<>>


MaxSiglaFrags == 3

SiglaFrags ==
    { <<"S","E","S">>, <<"-">>, <<" ">>, <<"S","P">>, <<"a">>, <<"1">>, <<".","/">> }

SiglaInputs == Concats(SiglaFrags, MaxSiglaFrags) \cup {None}

InitSigla ==
    /\ tx_sigla \in SiglaInputs
    /\ sigla_once = Pending
    /\ sigla_twice = Pending
    /\ IdleInsumo
    /\ IdleRow
    /\ IdleShape
    /\ IdleDefault

NormalizeSigla ==
    /\ sigla_once = Pending
    /\ sigla_once' = normalize_sigla(tx_sigla)
    /\ UNCHANGED <<tx_sigla, sigla_twice, insumoVars, rowVars, shapeVars, defaultVars>>

NormalizeSiglaAgain ==
    /\ sigla_once # Pending
    /\ sigla_twice = Pending
    /\ sigla_twice' = normalize_sigla(sigla_once)
    /\ UNCHANGED <<tx_sigla, sigla_once, insumoVars, rowVars, shapeVars, defaultVars>>

NextSigla == NormalizeSigla \/ NormalizeSiglaAgain

SpecSigla == InitSigla /\ [][NextSigla]_vars


\* C5: normalize_sigla applied to its own output gives that output again.
C5_Idempotent == sigla_twice # Pending => sigla_twice = sigla_once


MaxInsumoFrags == 3
MaxRules == 2

InsumoFrags ==
    { <<"D","I","L","U","E","N","T","E">>,
      <<"V","A","C","I","N","A">>,
      <<" ","p","a","r","a"," ","b","c","g">>,
      <<"B","(","1","C","G">>,
      <<"S","A","R","S","-","C","O","V","2">> }

InsumoInputs == Concats(InsumoFrags, MaxInsumoFrags) \cup {None}

BCG == <<"B","C","G">>
VACINA == <<"V","A","C","I","N","A">>

RulePool ==
    { Rule(BCG, <<"B","C","G">>, <<>>),
      Rule(VACINA, <<"G","e","n","e","r","i","c">>, <<1>>),
      Rule(VACINA, <<"G","e","n","e","r","i","c">>, <<200>>),
      Rule(<<"B","(">>, <<"P","a","r","e","n">>, <<1>>),
      Rule(<<>>, <<"E","m","p","t","y">>, <<1>>) }

RECURSIVE RuleTables(_)
RuleTables(n) ==
    IF n = 0 THEN {<<>>}
    ELSE LET P == RuleTables(n - 1) IN P \cup {Append(p, r) : p \in P, r \in RulePool}

InitInsumo ==
    /\ file_exists \in BOOLEAN
    /\ file_data \in (IF file_exists THEN RuleTables(MaxRules) ELSE {<<>>})
    /\ loaded = FALSE
    /\ mappings = <<>>
    /\ tx_insumo = Pending
    /\ insumo_ret = NotCalled
    /\ IdleSigla
    /\ IdleRow
    /\ IdleShape
    /\ IdleDefault

\* Normalizer.__init__
NewNormalizer ==
    /\ ~loaded
    /\ loaded' = TRUE
    /\ mappings' = load_mappings(file_exists, file_data)
    /\ UNCHANGED <<file_exists, file_data, tx_insumo, insumo_ret, siglaVars, rowVars, shapeVars, defaultVars>>

\* one call normalize_insumo(tx) on the normalizer
NormalizeInsumo ==
    /\ loaded
    /\ insumo_ret = NotCalled
    /\ \E tx \in InsumoInputs :
        /\ tx_insumo' = tx
        /\ insumo_ret' = normalize_insumo(mappings, tx)
    /\ UNCHANGED <<file_exists, file_data, loaded, mappings, siglaVars, rowVars, shapeVars, defaultVars>>

NextInsumo == NewNormalizer \/ NormalizeInsumo

SpecInsumo == InitInsumo /\ [][NextInsumo]_vars


InsumoCalled == insumo_ret.stage \notin {"pending", "empty"}

\* position of the first match of rule m in tx, case ignored
MatchPos(m, tx) == Min(Occurrences(Lower(tx), Lower(m.pattern)))

\* declared rule i is evaluated before declared rule j: smaller priority (100 when
\* the record has none), or equal priority and declared earlier
EvaluatedBefore(i, j) ==
    LET key(r) == IF r.priority = <<>> THEN 100 ELSE r.priority[1]
    IN  \/ key(file_data[i]) < key(file_data[j])
        \/ key(file_data[i]) = key(file_data[j]) /\ i < j

\* C4: when some declared rule matches the trimmed text, normalize_insumo returns
\* the label of the matching rule that comes first in ascending priority (100 when
\* unspecified, ties in declaration order), wherever the patterns match in the text.
C4_FirstByPriority ==
    (InsumoCalled /\ file_exists) =>
        LET tx == Strip(tx_insumo)
            hits == {i \in DOMAIN file_data : RuleMatches(file_data[i], tx)}
        IN  hits # {} =>
                \E i \in hits :
                    /\ \A j \in hits \ {i} : EvaluatedBefore(i, j)
                    /\ insumo_ret.value = file_data[i].vacina_normalizada

\* C4 witness: two declared rules match, the one declared later and matching later
\* in the text has the smaller priority, and its label is returned.
C4_Witness ==
    /\ InsumoCalled
    /\ \E i, j \in DOMAIN file_data :
        LET tx == Strip(tx_insumo)
        IN  /\ i < j
            /\ RuleMatches(file_data[i], tx) /\ RuleMatches(file_data[j], tx)
            /\ file_data[i].vacina_normalizada # file_data[j].vacina_normalizada
            /\ MatchPos(file_data[i], tx) < MatchPos(file_data[j], tx)
            /\ insumo_ret.value = file_data[j].vacina_normalizada

DILUENTE == <<"D","I","L","U","E","N","T","E">>

\* the case of C7: a non-empty text no rule matches, containing DILUENTE and not
\* VACINA
DiluentOnlyCase ==
    /\ InsumoCalled
    /\ LET tx == Strip(tx_insumo)
       IN  /\ \A i \in DOMAIN mappings : ~RuleMatches(mappings[i], tx)
           /\ Contains(Upper(tx), DILUENTE)
           /\ ~Contains(Upper(tx), VACINA)

\* the result C7 describes for the remainder rest of the text
ReevaluatedOn(rest) ==
    LET cand == Strip(RemoveNoise(Strip(rest)))
        hits == {i \in DOMAIN mappings : RuleMatches(mappings[i], cand)}
    IN  IF Strip(rest) # <<>> /\ hits # {}
        THEN insumo_ret = Returned("diluent", mappings[Min(hits)].vacina_normalizada)
        ELSE insumo_ret.stage \in {"fallback", "none"}

\* C7 as stated: the candidate is what follows the FIRST occurrence of DILUENTE.
C7_AfterFirstOccurrence ==
    DiluentOnlyCase =>
        LET u == Upper(Strip(tx_insumo))
        IN  ReevaluatedOn(Drop(u, Min(Occurrences(u, DILUENTE)) + Len(DILUENTE) - 1))

\* C7 amended: the candidate is what follows the LAST occurrence of DILUENTE
\* (text without line breaks); it is cleaned of hyphens, parentheses, commas and
\* digits and trimmed, and the first rule matching it gives the result.
C7_AfterLastOccurrence ==
    DiluentOnlyCase =>
        LET u == Upper(Strip(tx_insumo))
        IN  ReevaluatedOn(Drop(u, Max(Occurrences(u, DILUENTE)) + Len(DILUENTE) - 1))

\* C7 witness: DILUENTE occurs twice, and a rule that matches neither the text nor
\* the uncleaned remainder gives the result through the cleaned candidate.
C7_Witness ==
    /\ DiluentOnlyCase
    /\ insumo_ret.stage = "diluent"
    /\ LET u == Upper(Strip(tx_insumo))
       IN  /\ Cardinality(Occurrences(u, DILUENTE)) >= 2
           /\ \A i \in DOMAIN mappings : ~RuleMatches(mappings[i], SubDiluente(u))

\* C8: the stages run in the order direct rule match, diluent candidate match,
\* Covid keyword fallback on the original trimmed text; "Covid-19" comes from the
\* fallback only when no rule matched the text or the candidate and the text holds
\* SARS[- ]?COV2 or COVID[- ]?19; with no stage matching the result is None.
C8_StageOrder ==
    InsumoCalled =>
        LET tx == Strip(tx_insumo)
            direct == \E i \in DOMAIN mappings : RuleMatches(mappings[i], tx)
            cand == DiluentCandidate(tx)
            candMatch == /\ cand # <<>>
                         /\ \E i \in DOMAIN mappings : RuleMatches(mappings[i], cand[1])
            covid == CovidSearch(tx)
        IN  /\ (insumo_ret.stage = "direct") = direct
            /\ (insumo_ret.stage = "diluent") = (~direct /\ candMatch)
            /\ (insumo_ret.stage = "fallback") = (~direct /\ ~candMatch /\ covid)
            /\ (insumo_ret.stage = "none") = (~direct /\ ~candMatch /\ ~covid)
            /\ (insumo_ret.value = Covid19) = (insumo_ret.stage = "fallback")
            /\ insumo_ret.stage = "none" => insumo_ret.value = None

\* C8 witness: the diluent stage ran on a non-empty candidate, no rule of a
\* non-empty table matched it, and the fallback returned "Covid-19".
C8_Witness ==
    /\ InsumoCalled
    /\ insumo_ret = Returned("fallback", Covid19)
    /\ DiluentCandidate(Strip(tx_insumo)) # <<>>
    /\ \E i \in DOMAIN mappings : mappings[i].pattern # <<>>

---------------------------------------------------------------------------
(* _normalize_row applied to one row *)

MaxEntries == 3

RowKeys == {"ano", "quantidade", "tipo_dado", "x"}

RowValues == {JNull, JInt(0), JInt(2025), JStr("previsao"), JStr("0.5")}

KeysOf(entries) == {entries[i].k : i \in DOMAIN entries}

\* the entry lists of the dicts of at most n entries, in every iteration order
RECURSIVE EntryLists(_)
EntryLists(n) ==
    IF n = 0 THEN {<<>>}
    ELSE LET P == EntryLists(n - 1)
         IN  P \cup UNION { {Append(p, Entry(key, v)) : key \in RowKeys \ KeysOf(p),
                                                         v \in RowValues}
                            : p \in {q \in P : Len(q) = n - 1} }

RECURSIVE ValueLists(_)
ValueLists(n) ==
    IF n = 0 THEN {<<>>}
    ELSE LET P == ValueLists(n - 1) IN P \cup {Append(p, v) : p \in P, v \in RowValues}

\* dicts, lists and tuples, and values that are neither
RowInputs ==
    {JDict(e) : e \in EntryLists(MaxEntries)}
    \cup {JList(l) : l \in ValueLists(MaxEntries)}
    \cup RowValues

InitRow ==
    /\ item \in RowInputs
    /\ row_ret = <<>>
    /\ IdleSigla
    /\ IdleInsumo
    /\ IdleShape
    /\ IdleDefault

NormalizeRow ==
    /\ row_ret = <<>>
    /\ row_ret' = <<normalize_row(item)>>
    /\ UNCHANGED <<item, siglaVars, insumoVars, shapeVars, defaultVars>>

NextRow == NormalizeRow

SpecRow == InitRow /\ [][NextRow]_vars


\* the case of C6: a dict row normalized, year or quantity not found by key
FallbackCase ==
    /\ row_ret # <<>>
    /\ item.t = "dict"
    /\ Pick(item, ano_keys) = JNull \/ Pick(item, qty_keys) = JNull

\* the 1st, 2nd and 3rd value taken for the fields not found by key
FilledByPosition ==
    LET vals == Values(item)
        a == Pick(item, ano_keys)
        q == Pick(item, qty_keys)
        t == Pick(item, tipo_keys)
    IN  Fields(IF a = JNull /\ Len(vals) >= 1 THEN vals[1] ELSE a,
               IF q = JNull /\ Len(vals) >= 2 THEN vals[2] ELSE q,
               IF t = JNull /\ Len(vals) >= 3 THEN vals[3] ELSE t)

\* C6 as stated: whenever year or quantity is not found by key, the 1st value
\* becomes year if absent, the 2nd quantity if absent, the 3rd data-kind if absent
\* and there are 3 values; a field found by key is kept.
C6_PositionalAsStated == FallbackCase => row_ret[1] = Coerced(FilledByPosition)

\* C6 amended: the same, provided the dict has at least two values; a dict with
\* fewer than two values is not filled by position at all.
C6_PositionalFromTwoValues ==
    FallbackCase =>
        IF Len(Values(item)) >= 2
        THEN row_ret[1] = Coerced(FilledByPosition)
        ELSE row_ret[1] = Coerced(Fields(Pick(item, ano_keys), Pick(item, qty_keys),
                                         Pick(item, tipo_keys)))

\* C6 witness: year is found by key and differs from the 1st value, quantity and
\* data-kind are not found by key and come from the 2nd and 3rd values.
C6_Witness ==
    /\ FallbackCase
    /\ LET vals == Values(item)
       IN  /\ Len(vals) >= 3
           /\ Pick(item, ano_keys) # JNull
           /\ CoerceYear(vals[1]) # CoerceYear(Pick(item, ano_keys))
           /\ Pick(item, qty_keys) = JNull
           /\ Pick(item, tipo_keys) = JNull
           /\ row_ret[1] # JNull
           /\ Get(row_ret[1], "ano") = CoerceYear(Pick(item, ano_keys))
           /\ Get(row_ret[1], "quantidade") = CoerceQuantity(vals[2])
           /\ Get(row_ret[1], "quantidade") # JNull
           /\ Get(row_ret[1], "tipo_dado") = CoerceKind(vals[3])
           /\ Get(row_ret[1], "tipo_dado") # JNull

---------------------------------------------------------------------------
(* the /previsao handler answering, with and without debug, to the same data *)

MaxRows == 2

ForecastZero ==
    JDict(<<Entry("ano", JInt(2025)), Entry("quantidade", JInt(0)),
            Entry("tipo_dado", JStr("previsao"))>>)
Historical ==
    JDict(<<Entry("ano", JInt(2023)), Entry("quantidade", JInt(500)),
            Entry("tipo_dado", JStr("historico"))>>)

FewRows == {ForecastZero, Historical}

RECURSIVE FewLists(_)
FewLists(n) ==
    IF n = 0 THEN {<<>>}
    ELSE LET P == FewLists(n - 1) IN P \cup {Append(p, r) : p \in P, r \in FewRows}

KnownKeys == <<"data", "result", "rows">>

\* what a container holds under a known key: nothing (or None), rows, or text
ContainerValues == {JNull, JStr("ok")} \cup {JList(l) : l \in FewLists(MaxRows)}

\* the entries of a dict without those that are absent
RECURSIVE Present(_)
Present(entries) ==
    IF entries = <<>> THEN <<>>
    ELSE IF Head(entries).t = "null" THEN Present(Tail(entries))
         ELSE <<Head(entries)>> \o Present(Tail(entries))

Containers ==
    {JDict(Present(<<Entry("data", d), Entry("result", r), Entry("rows", w)>>)) :
        d \in ContainerValues, r \in ContainerValues, w \in ContainerValues}

ShapeInputs ==
    {JList(<<r>>) : r \in RowInputs}
    \cup {JList(l) : l \in FewLists(MaxRows)}
    \cup Containers
    \cup {JNull, JStr("erro"), JInt(1)}

InitShape ==
    /\ rpc_data \in ShapeInputs
    /\ response = [debug \in BOOLEAN |-> NoResponse]
    /\ IdleSigla
    /\ IdleInsumo
    /\ IdleRow
    /\ IdleDefault

\* one request, answered from line 207 on
Previsao(debug) ==
    /\ response[debug] = NoResponse
    /\ response' = [response EXCEPT ![debug] = previsao_response(rpc_data, debug)]
    /\ UNCHANGED <<rpc_data, siglaVars, insumoVars, rowVars, defaultVars>>

NextShape == \E debug \in BOOLEAN : Previsao(debug)

SpecShape == InitShape /\ [][NextShape]_vars


\* a row that normalizes to a forecast with absent or zero quantity
Degenerate(row) ==
    LET nr == normalize_row(row)
    IN  /\ nr # JNull
        /\ Get(nr, "tipo_dado").t = "str" /\ Get(nr, "tipo_dado").s = "previsao"
        /\ Get(nr, "quantidade").t = "null" \/ Get(nr, "quantidade").n = 0

Answered(debug) == response[debug] # NoResponse

\* C1: for a bare list of one row, with or without debug, the response is the 404
\* exactly when the row normalizes to a row whose data-kind is "previsao" and whose
\* quantity is absent or zero, and the 200 otherwise.
C1_SingleRow ==
    (rpc_data.t = "list" /\ Len(rpc_data.items) = 1) =>
        \A debug \in BOOLEAN :
            Answered(debug) =>
                response[debug].status_code =
                    IF Degenerate(rpc_data.items[1]) THEN 404 ELSE 200

\* C1 witness: a one-row list answered 404 because the quantity is absent.
C1_Witness ==
    /\ rpc_data.t = "list" /\ Len(rpc_data.items) = 1
    /\ Answered(FALSE) /\ response[FALSE].status_code = 404
    /\ Get(normalize_row(rpc_data.items[1]), "quantidade") = JNull

\* C2: a 200 without debug carries the rows as received: the list itself, or the
\* list held under a known key of the container.
C2_RowsUnmodified ==
    (Answered(FALSE) /\ response[FALSE].status_code = 200) =>
        /\ response[FALSE].content.t = "list"
        /\ IF rpc_data.t = "list" THEN response[FALSE].content = rpc_data
           ELSE \E i \in DOMAIN KnownKeys :
                    response[FALSE].content = Get(rpc_data, KnownKeys[i])

\* C2 witness: a 200 for a row whose normalized form differs from the row.
C2_Witness ==
    /\ Answered(FALSE) /\ response[FALSE].status_code = 200
    /\ rpc_data.t = "list" /\ Len(rpc_data.items) = 1
    /\ normalize_row(rpc_data.items[1]) \notin {JNull, rpc_data.items[1]}
    /\ response[FALSE].content.items[1] = rpc_data.items[1]

\* the outcome of the three rules on the bare row sequence R
SameAsBare(R) ==
    IF R.items = <<>> \/ (Len(R.items) = 1 /\ Degenerate(R.items[1]))
    THEN response[FALSE].status_code = 404
    ELSE response[FALSE] = JSONResponse(200, R)

\* C3 as stated: a container answers as the bare sequence R does, for every R it
\* holds under a known key.
C3_AnyKnownKey ==
    (rpc_data.t = "dict" /\ Answered(FALSE)) =>
        \A i \in DOMAIN KnownKeys :
            Get(rpc_data, KnownKeys[i]).t = "list" => SameAsBare(Get(rpc_data, KnownKeys[i]))

\* R, under known key i, is the sequence line 244 picks: no earlier key holds a
\* truthy value, and if R is empty no later key does either
PickedKey(i) ==
    /\ Get(rpc_data, KnownKeys[i]).t = "list"
    /\ \A j \in DOMAIN KnownKeys : j < i => ~Truthy(Get(rpc_data, KnownKeys[j]))
    /\ Get(rpc_data, KnownKeys[i]).items = <<>> =>
            \A j \in DOMAIN KnownKeys : j > i => ~Truthy(Get(rpc_data, KnownKeys[j]))

\* C3 amended: a container answers as the bare sequence R does when R is held
\* under a known key before which, in the order data, result, rows, no key holds
\* a truthy value (and, R being empty, after which none does).
C3_PickedKey ==
    (rpc_data.t = "dict" /\ Answered(FALSE)) =>
        \A i \in DOMAIN KnownKeys : PickedKey(i) => SameAsBare(Get(rpc_data, KnownKeys[i]))

\* C3 witness: rows held under "rows" behind an empty list under "data", answered
\* 200 with those rows.
C3_Witness ==
    /\ rpc_data.t = "dict" /\ Answered(FALSE)
    /\ HasKey(rpc_data, "data") /\ Get(rpc_data, "data").items = <<>>
    /\ PickedKey(3)
    /\ response[FALSE] = JSONResponse(200, Get(rpc_data, "rows"))

\* C10: the two answers to the same data have the same status, and the answer
\* with debug carries the data received under rpc_raw.
C10_DebugSameOutcome ==
    (Answered(TRUE) /\ Answered(FALSE)) =>
        /\ response[TRUE].status_code = response[FALSE].status_code
        /\ response[TRUE].content.t = "dict"
        /\ Get(response[TRUE].content, "rpc_raw") = rpc_data
        /\ ~(response[FALSE].content.t = "dict" /\ HasKey(response[FALSE].content, "rpc_raw"))

\* C10 witness: one degenerate forecast row answered 404 both ways, the row
\* carried under rpc_raw with debug.
C10_Witness ==
    /\ Answered(TRUE) /\ Answered(FALSE)
    /\ rpc_data.t = "list" /\ Len(rpc_data.items) = 1
    /\ response[FALSE].status_code = 404 /\ response[TRUE].status_code = 404
    /\ Get(response[TRUE].content, "rpc_raw").items[1] = rpc_data.items[1]

---------------------------------------------------------------------------
(* get_default_normalizer called from several threads, lines 70-77 of             *)
(* normalizer.py: the test of the global, the construction and the store are     *)
(* separate steps of a thread, and another thread may run between them           *)

NumThreads == 3

Threads == 1..NumThreads

\* backend/mappings.json for this specification
DefaultFile ==
    <<Rule(VACINA, <<"G","e","n","e","r","i","c">>, <<200>>), Rule(BCG, <<"B","C","G">>, <<>>)>>

DefaultTexts == {<<"V","A","C","I","N","A">> \o <<" ","p","a","r","a"," ","b","c","g">>,
                 <<"S","A","R","S","-","C","O","V","2">>}

InitDefault ==
    /\ default_normalizer = 0
    /\ instances = <<>>
    /\ pc = [t \in Threads |-> "check"]
    /\ created = [t \in Threads |-> 0]
    /\ returned = [t \in Threads |-> 0]
    /\ file_exists = TRUE
    /\ file_data = DefaultFile
    /\ loaded = FALSE
    /\ mappings = <<>>
    /\ tx_insumo = Pending
    /\ insumo_ret = NotCalled
    /\ IdleSigla
    /\ IdleRow
    /\ IdleShape

\* line 75: if _default_normalizer is None
Check(t) ==
    /\ pc[t] = "check"
    /\ pc' = [pc EXCEPT ![t] = IF default_normalizer = 0 THEN "construct" ELSE "return"]
    /\ UNCHANGED <<default_normalizer, instances, created, returned,
                   insumoVars, siglaVars, rowVars, shapeVars>>

\* line 76, right-hand side: Normalizer(), which loads the mappings file
Construct(t) ==
    /\ pc[t] = "construct"
    /\ instances' = Append(instances, [mappings |-> load_mappings(file_exists, file_data)])
    /\ created' = [created EXCEPT ![t] = Len(instances) + 1]
    /\ pc' = [pc EXCEPT ![t] = "store"]
    /\ UNCHANGED <<default_normalizer, returned, insumoVars, siglaVars, rowVars, shapeVars>>

\* line 76: the store to the global
Store(t) ==
    /\ pc[t] = "store"
    /\ default_normalizer' = created[t]
    /\ pc' = [pc EXCEPT ![t] = "return"]
    /\ UNCHANGED <<instances, created, returned, insumoVars, siglaVars, rowVars, shapeVars>>

\* line 77: return _default_normalizer
Return(t) ==
    /\ pc[t] = "return"
    /\ returned' = [returned EXCEPT ![t] = default_normalizer]
    /\ pc' = [pc EXCEPT ![t] = "done"]
    /\ UNCHANGED <<default_normalizer, instances, created, insumoVars, siglaVars,
                   rowVars, shapeVars>>

\* the caller uses the normalizer it received
UseNormalizer(t) ==
    /\ pc[t] = "done"
    /\ \E tx \in DefaultTexts :
        /\ tx_insumo' = tx
        /\ insumo_ret' = normalize_insumo(instances[returned[t]].mappings, tx)
    /\ UNCHANGED <<file_exists, file_data, loaded, mappings, defaultVars,
                   siglaVars, rowVars, shapeVars>>

NextDefault ==
    \E t \in Threads : Check(t) \/ Construct(t) \/ Store(t) \/ Return(t) \/ UseNormalizer(t)

SpecDefault == InitDefault /\ [][NextDefault]_vars


\* C9: under every interleaving the mappings are loaded at most once, every caller
\* of get_default_normalizer receives the same object, and no call changes the
\* mappings of an object once loaded.
C9_LoadedOnceSharedInstance ==
    /\ Len(instances) <= 1
    /\ \A t, u \in Threads :
        (returned[t] # 0 /\ returned[u] # 0) => returned[t] = returned[u]
    /\ \A i \in DOMAIN instances :
        instances[i].mappings = load_mappings(file_exists, file_data)

====
